---- MODULE Spec2Model ----
(***************************************************************************)
(* A model of pinata-cli.py: one process run per command line, the         *)
(* credential file that survives between runs, the single HTTP request a   *)
(* handler issues and what it prints.                                      *)
(*                                                                         *)
(* Strings are sequences of characters (one-character strings; "CR" and    *)
(* "LF" stand for carriage return and line feed).                          *)
(***************************************************************************)
EXTENDS Integers, Sequences, FiniteSets, TLC

\* ---------------------------------------------------------------- bounds
\* longest token typed at the setup prompt
MaxTok == 1
\* longest answer typed at the delete confirmation prompt
MaxConfirm == 3
\* longest <id> and <name> of a well-formed update spec
MaxField == 1
\* most fields missing from the data object of a detail response
MaxMissing == 1
\* most records in the files array of a listing response
MaxFiles == 1

SeqsUpTo(S, n) == UNION {[1..k -> S] : k \in 0..n}

\* --------------------------------------------------- python string helpers

\* str.split(sep) for a one-character separator: the pieces between the
\* separators, empty pieces kept ("a,".split(",") is ["a", ""]).
RECURSIVE SplitFrom(_, _, _, _)
SplitFrom(s, sep, i, cur) ==
    IF i > Len(s) THEN <<cur>>
    ELSE IF s[i] = sep THEN <<cur>> \o SplitFrom(s, sep, i + 1, <<>>)
    ELSE SplitFrom(s, sep, i + 1, Append(cur, s[i]))

Split(s, sep) == SplitFrom(s, sep, 1, <<>>)

\* str.lower() on the characters the prompts can receive.
LowerChar(c) ==
    CASE c = "Y" -> "y"
      [] c = "E" -> "e"
      [] c = "S" -> "s"
      [] c = "N" -> "n"
      [] OTHER -> c

Lower(s) == [i \in 1..Len(s) |-> LowerChar(s[i])]

\* ------------------------------------------------------- credential store

\* The credential file and its directory, <home>/.pinata/.credentials.
FsStates(contents) ==
    { [dir |-> FALSE, exists |-> FALSE, readable |-> FALSE, content |-> <<>>],
      [dir |-> TRUE,  exists |-> FALSE, readable |-> FALSE, content |-> <<>>] }
    \cup [dir : {TRUE}, exists : {TRUE}, readable : BOOLEAN, content : contents]

\* create_pinata_directory: makedirs when the path does not exist; True
\* unless the file system raises (osOk = FALSE), then False.
create_pinata_directory(f, osOk) ==
    IF f.dir THEN [ok |-> TRUE, fs |-> f]
    ELSE IF osOk THEN [ok |-> TRUE, fs |-> [f EXCEPT !.dir = TRUE]]
    ELSE [ok |-> FALSE, fs |-> f]

\* file.write in text mode on POSIX: "\n" is written as os.linesep, which is
\* "\n"; every other character, "\r" included, is written as it is.
TextWrite(s) == s

\* file.read in text mode (newline=None, universal newlines): "\r\n" and a
\* lone "\r" are both read as "\n".
RECURSIVE TextRead(_)
TextRead(s) ==
    IF s = <<>> THEN <<>>
    ELSE IF s[1] = "CR"
         THEN IF Len(s) >= 2 /\ s[2] = "LF"
              THEN <<"LF">> \o TextRead(SubSeq(s, 3, Len(s)))
              ELSE <<"LF">> \o TextRead(Tail(s))
         ELSE <<s[1]>> \o TextRead(Tail(s))

\* open(file_path, 'w') keeps nothing of the earlier content.
OpenForWrite(old) == <<>>

\* save_token_to_file: open(path, 'w') and write; True, or False when open
\* raises (no directory, or the file system refuses: io = "open") or write
\* raises after open has emptied the file (io = "write"). A file that exists
\* keeps its permissions.
save_token_to_file(f, content, io) ==
    IF ~f.dir \/ io = "open" THEN [ok |-> FALSE, fs |-> f]
    ELSE LET opened == [f EXCEPT !.exists = TRUE,
                                 !.readable = IF f.exists THEN f.readable ELSE TRUE,
                                 !.content = OpenForWrite(f.content)]
         IN  IF io = "write" THEN [ok |-> FALSE, fs |-> opened]
             ELSE [ok |-> TRUE,
                   fs |-> [opened EXCEPT !.content = opened.content \o TextWrite(content)]]

\* read_token: the file's text, or False when the file is missing or cannot
\* be read.
read_token(f) ==
    IF f.exists /\ f.readable
    THEN [isFalse |-> FALSE, str |-> TextRead(f.content)]
    ELSE [isFalse |-> TRUE, str |-> <<>>]

\* A test that takes only False for a missing token ("if api_key is False").
NotApiKeyFalseOnly(k) == k.isFalse

\* "if not api_key": False and the empty string are both falsy.
NotApiKey(k) == k.isFalse \/ k.str = <<>>

NoKey == [isFalse |-> TRUE, str |-> <<>>]

\* ------------------------------------------------------------ command line

\* A flag that takes a value: None when it is not supplied.
None == [given |-> FALSE, val |-> <<>>]
Given(v) == [given |-> TRUE, val |-> v]

\* Python truth of an optional string: None and "" are both falsy.
Truthy(o) == o.given /\ o.val # <<>>

\* Values the model supplies to the flags.
SomePath == <<"d", "/", "f">>
SomeId == <<"4", "2">>
Paths == {<<>>, SomePath, <<"f">>, <<"d", "/">>}

FieldChars == {"4", "="}
Fields == SeqsUpTo(FieldChars, MaxField)
IdKey == <<"i", "d">>
NameKey == <<"n", "a", "m", "e">>
\* the update spec string id=<id>,name=<name>
MkSpec(id, name) == IdKey \o <<"=">> \o id \o <<",">> \o NameKey \o <<"=">> \o name
WellFormedSpecs == {MkSpec(id, name) : id \in Fields, name \in Fields}
SomeSpec == MkSpec(<<"4">>, <<"4">>)
MalformedSpecs ==
    { IdKey \o <<"=", "4">>,
      MkSpec(<<"4">>, <<"4">>) \o <<",", "4">>,
      IdKey \o <<",">> \o NameKey \o <<"=", "4">>,
      IdKey \o <<"=", "4", ",">> \o NameKey }
UpdateSpecs == {<<>>} \cup WellFormedSpecs \cup MalformedSpecs

NoArgs ==
    [setup |-> FALSE, authtest |-> FALSE, uploadfile |-> None, listfiles |-> FALSE,
     getfile |-> None, updatefile |-> None, deletefile |-> None, extra |-> "none"]

Opt(v) == {None, Given(<<>>), Given(v)}

\* Every combination of the seven flags, each valued flag absent, empty or
\* with one value.
FlagCombinations ==
    [setup : BOOLEAN, authtest : BOOLEAN, uploadfile : Opt(SomePath),
     listfiles : BOOLEAN, getfile : Opt(SomeId), updatefile : Opt(SomeSpec),
     deletefile : Opt(SomeId), extra : {"none"}]

\* One valued flag alone, over all the values of the model.
SingleFlag ==
    {[NoArgs EXCEPT !.uploadfile = Given(p)] : p \in Paths}
    \cup {[NoArgs EXCEPT !.updatefile = Given(u)] : u \in UpdateSpecs}

\* -h, or an argument the parser does not know, next to the switches.
ParserExits ==
    {[NoArgs EXCEPT !.setup = s, !.listfiles = l, !.extra = e] :
        s \in BOOLEAN, l \in BOOLEAN, e \in {"help", "unknown"}}

Argvs == FlagCombinations \cup SingleFlag \cup ParserExits

\* main's if/elif chain: the first truthy flag in the order of the chain.
Dispatch(a) ==
    IF a.setup THEN "setup"
    ELSE IF a.authtest THEN "authtest"
    ELSE IF Truthy(a.uploadfile) THEN "upload"
    ELSE IF a.listfiles THEN "list"
    ELSE IF Truthy(a.getfile) THEN "get"
    ELSE IF Truthy(a.updatefile) THEN "update"
    ELSE IF Truthy(a.deletefile) THEN "delete"
    ELSE "none"

\* --------------------------------------------------------------- the wire

\* A JSON value as the handlers look at it: its kind, the keys it has (a
\* mapping), the strings it holds (a list) or the substrings it contains (a
\* string), and, for the data object, its keyvalues and files members.
FieldKeys == {"id", "name", "cid", "size", "number_of_files", "mime_type",
              "group_id", "created_at"}
RecordKeys == {"id", "name", "cid", "group_id"}

NoFiles == [kind |-> "missing", items |-> <<>>]
NoData == [kind |-> "missing", has |-> {}, kv |-> "missing", files |-> NoFiles]
NoBody == [top |-> "notjson", data |-> NoData]

\* records of the files array: which of the four keys each has, and a name
FullRecord(n) == [n |-> n, has |-> RecordKeys]
FileRecords == {FullRecord("1"), FullRecord("2"),
                [n |-> "3", has |-> RecordKeys \ {"group_id"}]}
FilesValues ==
    {[kind |-> "null", items |-> <<>>]}
    \cup {[kind |-> "array", items |-> fs] : fs \in SeqsUpTo(FileRecords, MaxFiles)}

DataShapes(keys) ==
    {[kind |-> k, has |-> h, kv |-> "missing", files |-> NoFiles] :
        k \in {"list", "str"}, h \in {{}, keys}}
    \cup {[kind |-> k, has |-> {}, kv |-> "missing", files |-> NoFiles] :
            k \in {"null", "num"}}

ListData ==
    DataShapes({"files"})
    \cup {[kind |-> "obj", has |-> {}, kv |-> "missing", files |-> NoFiles]}
    \cup {[kind |-> "obj", has |-> {"files"}, kv |-> "missing", files |-> f] :
            f \in FilesValues}

GetData ==
    DataShapes({"id"})
    \cup {[kind |-> "obj",
           has |-> (FieldKeys \ miss) \cup (IF kv = "missing" THEN {} ELSE {"keyvalues"}),
           kv |-> kv, files |-> NoFiles] :
            miss \in {m \in SUBSET FieldKeys : Cardinality(m) <= MaxMissing},
            kv \in {"missing", "null", "empty", "nonempty"}}

Bodies(datas) ==
    {NoBody}
    \cup {[top |-> t, data |-> NoData] : t \in {"null", "list", "obj"}}
    \cup {[top |-> "obj", data |-> d] : d \in datas}

PlainBodies == Bodies({[kind |-> "obj", has |-> {}, kv |-> "missing", files |-> NoFiles]})

NoResp == [failed |-> FALSE, status |-> 0, body |-> NoBody]

\* What the service can answer: nothing (a transport failure), a status
\* without a usable body, or 200 or 201 with a body.
Responses(bodies) ==
    {[failed |-> TRUE, status |-> 0, body |-> NoBody]}
    \cup {[failed |-> FALSE, status |-> s, body |-> NoBody] : s \in {204, 304, 404, 500}}
    \cup {[failed |-> FALSE, status |-> s, body |-> b] : s \in {200, 201}, b \in bodies}

\* response.raise_for_status(): HTTPError for 4xx and 5xx only.
raise_for_status(status) == 400 <= status /\ status < 600

Is2xx(status) == 200 <= status /\ status < 300

\* "key in v": membership for a mapping, a list or a string, TypeError for
\* None and numbers.
PyIn(key, v) ==
    IF v.kind \in {"obj", "list", "str"}
    THEN (IF key \in v.has THEN "True" ELSE "False")
    ELSE "TypeError"

\* "v[key]" with a string key: the member of a mapping, KeyError when it has
\* none, TypeError for everything else.
PyGetItem(key, v) ==
    IF v.kind = "obj"
    THEN (IF key \in v.has THEN "value" ELSE "KeyError")
    ELSE "TypeError"

\* A request as handed to the requests library.
Request(method, url, id, name, key) ==
    [method |-> method, url |-> url, id |-> id, name |-> name, kv |-> {},
     bearer |-> key.str]

\* ---------------------------------------------------------------- printing
Msg(text, code) == [text |-> text, code |-> code]
Banner == Msg("banner", 0)
SetupFirst == Msg("Error Reading Pinata API Token, Run Setup First using ./pinata-cli -s", 0)
HttpErr(resp) == Msg("HTTP error occurred", resp.status)
OtherErr == Msg("An error occurred", 0)

NoTable == [headers |-> <<>>, rows |-> <<>>]

\* ------------------------------------------------------------------ state
VARIABLES
    fs,         \* the credential file and its directory
    lastSaved,  \* history: the token of the latest save, while it stands
    argv,       \* the command line of the current run
    pc,         \* where the run is: "off", "main", a handler's name, "done"
    op,         \* the handler main dispatched to ("none" before, or if none)
    apiKey,     \* what read_token returned in this run
    line,       \* what input() returned in this run
    http,       \* the requests issued in this run, in order
    resp,       \* the response the request got
    out,        \* what the run printed, in order
    table,      \* the table handed to tabulate
    ending,     \* "running", "return", "exit" (sys.exit) or "uncaught"
    status      \* the exit status of the process

vars == <<fs, lastSaved, argv, pc, op, apiKey, line, http, resp, out, table,
          ending, status>>

TokChars == {"a", "CR"}
\* input() returns the line without its newline: a token holds no "LF"
Tokens == SeqsUpTo(TokChars, MaxTok)
ConfirmChars == {"y", "Y", "e", "S", "n", "N", "o", "x"}
ConfirmInputs == SeqsUpTo(ConfirmChars, MaxConfirm)

NoLine == [eof |-> FALSE, text |-> <<>>]
\* input(): a line, or EOFError when standard input is at its end
Inputs(texts) == {[eof |-> TRUE, text |-> <<>>]} \cup {[eof |-> FALSE, text |-> t] : t \in texts}

NotSaved == [valid |-> FALSE, tok |-> <<>>]

Init ==
    /\ fs \in { [dir |-> FALSE, exists |-> FALSE, readable |-> FALSE, content |-> <<>>],
                [dir |-> TRUE,  exists |-> FALSE, readable |-> FALSE, content |-> <<>>],
                [dir |-> TRUE,  exists |-> TRUE,  readable |-> FALSE, content |-> <<>>] }
    /\ lastSaved = NotSaved
    /\ argv = NoArgs
    /\ pc = "off"
    /\ op = "none"
    /\ apiKey = NoKey
    /\ line = NoLine
    /\ http = <<>>
    /\ resp = NoResp
    /\ out = <<>>
    /\ table = NoTable
    /\ ending = "running"
    /\ status = 0

\* The end of a handler: everything the run leaves behind.
Finish(key, ln, reqs, r, msgs, tbl, end, st) ==
    /\ apiKey' = key
    /\ line' = ln
    /\ http' = reqs
    /\ resp' = r
    /\ out' = out \o msgs
    /\ table' = tbl
    /\ ending' = end
    /\ status' = st
    /\ pc' = "done"
    /\ UNCHANGED <<argv, op>>

\* The interpreter's exit status: 0 after main returns, the argument of
\* sys.exit, 1 after a traceback.
ExitOk == 0
ExitFail == 1
ExitUsage == 2

\* "if not api_key: print(...); sys.exit(1)", before anything else is done.
MissingCredential(key) ==
    Finish(key, NoLine, <<>>, NoResp, <<SetupFirst>>, NoTable, "exit", ExitFail)

\* An exception nothing catches: a traceback and exit status 1.
Uncaught(key, ln) ==
    Finish(key, ln, <<>>, NoResp, <<>>, NoTable, "uncaught", ExitFail)

\* A handler that saw a failure and sent the request again.
IssueAndRetry(req, r) ==
    IF r.failed \/ raise_for_status(r.status) THEN <<req, req>> ELSE <<req>>

\* The one call a handler makes to the requests library, whatever the answer r.
Issue(req, r) == <<req>>

\* A handler that returns to main, which returns.
Return(key, ln, reqs, r, msgs, tbl) ==
    Finish(key, ln, reqs, r, msgs, tbl, "return", ExitOk)

\* ------------------------------------------------------------------- main
\* main: the banner, parse_args (which leaves on -h and on an argument it
\* does not know), then the if/elif chain.
Main ==
    /\ pc = "main"
    /\ UNCHANGED <<fs, lastSaved, argv, apiKey, line, http, resp, table>>
    /\ IF argv.extra = "help"
       THEN /\ out' = out \o <<Banner, Msg("help", 0)>>
            /\ op' = "none" /\ pc' = "done" /\ ending' = "exit" /\ status' = ExitOk
       ELSE IF argv.extra = "unknown"
       THEN /\ out' = out \o <<Banner, Msg("usage", 0)>>
            /\ op' = "none" /\ pc' = "done" /\ ending' = "exit" /\ status' = ExitUsage
       ELSE IF Dispatch(argv) = "none"
       THEN /\ out' = out \o <<Banner, Msg("Error: Invalid Options, Use -h for detailed Help", 0)>>
            /\ op' = "none" /\ pc' = "done" /\ ending' = "exit" /\ status' = ExitFail
       ELSE /\ out' = out \o <<Banner>>
            /\ op' = Dispatch(argv) /\ pc' = Dispatch(argv)
            /\ UNCHANGED <<ending, status>>

\* The process is gone: nothing of the run is left but the file system.
ProcessExit ==
    /\ pc = "done"
    /\ argv' = NoArgs
    /\ pc' = "off"
    /\ op' = "none"
    /\ apiKey' = NoKey
    /\ line' = NoLine
    /\ http' = <<>>
    /\ resp' = NoResp
    /\ out' = <<>>
    /\ table' = NoTable
    /\ ending' = "running"
    /\ status' = 0
    /\ UNCHANGED <<fs, lastSaved>>

\* An invocation of the program: a new process with its command line.
NewRun ==
    /\ pc = "off"
    /\ argv' \in Argvs
    /\ pc' = "main"
    /\ UNCHANGED <<fs, lastSaved, op, apiKey, line, http, resp, out, table, ending, status>>

\* ------------------------------------------------------------------ setup
\* setup_pinata_api: read the token, make the directory, write the file.
Setup ==
    /\ pc = "setup"
    /\ \E ln \in Inputs(Tokens), dirOk \in BOOLEAN, saveOk \in {"ok", "open", "write"} :
         IF ln.eof
         THEN /\ Uncaught(NoKey, ln)
              /\ UNCHANGED <<fs, lastSaved>>
         ELSE LET made == create_pinata_directory(fs, dirOk)
                  saved == save_token_to_file(made.fs, ln.text, saveOk)
              IN  IF ~made.ok
                  THEN /\ fs' = made.fs
                       /\ UNCHANGED lastSaved
                       /\ Finish(NoKey, ln, <<>>, NoResp, <<Msg("Error in Saving JWT Token", 0)>>,
                                 NoTable, "exit", ExitFail)
                  ELSE IF ~saved.ok
                  THEN /\ fs' = saved.fs
                       /\ lastSaved' = IF saved.fs.content = fs.content THEN lastSaved ELSE NotSaved
                       /\ Finish(NoKey, ln, <<>>, NoResp, <<Msg("Error in Saving JWT Token", 0)>>,
                                 NoTable, "exit", ExitFail)
                  ELSE /\ fs' = saved.fs
                       /\ lastSaved' = [valid |-> TRUE, tok |-> ln.text]
                       /\ Finish(NoKey, ln, <<>>, NoResp,
                                 <<Msg("Token Saved Sucessfully, You can Proceed with Other Activities", 0)>>,
                                 NoTable, "exit", ExitOk)

\* --------------------------------------------------------------- authtest
AuthUrl == "data/testAuthentication"
UploadUrl == "uploads/v3/files"
FilesUrl == "v3/files"
FileUrl == "v3/files/{id}"

\* test_pinata_authentication. The error dictionaries are returned to main,
\* which drops them.
AuthTest ==
    /\ pc = "authtest"
    /\ UNCHANGED <<fs, lastSaved>>
    /\ LET key == read_token(fs)
           req == Request("GET", AuthUrl, <<>>, <<>>, key)
       IN  IF NotApiKey(key) THEN MissingCredential(key)
           ELSE \E r \in Responses(PlainBodies) :
                  IF r.failed \/ raise_for_status(r.status) \/ r.body.top # "obj"
                  THEN Return(key, NoLine, Issue(req, r), r, <<>>, NoTable)
                  ELSE Return(key, NoLine, Issue(req, r), r, <<Msg("message", 0)>>, NoTable)

\* ----------------------------------------------------------------- upload
\* file_path.split('/')[-1]
BaseName(path) == LET parts == Split(path, "/") IN parts[Len(parts)]

\* upload_file_to_pinata. open() is outside the try.
Upload ==
    /\ pc = "upload"
    /\ UNCHANGED <<fs, lastSaved>>
    /\ LET key == read_token(fs)
           path == argv.uploadfile.val
           req == Request("POST", UploadUrl, <<>>, BaseName(path), key)
           uploading == Msg("File Uploading.....", 0)
       IN  IF NotApiKey(key) THEN MissingCredential(key)
           ELSE \E openOk \in BOOLEAN :
                  IF ~openOk THEN Uncaught(key, NoLine)
                  ELSE \E r \in Responses(PlainBodies) :
                         IF r.failed
                         THEN Return(key, NoLine, Issue(req, r), r, <<uploading, OtherErr>>, NoTable)
                         ELSE IF raise_for_status(r.status)
                         THEN Return(key, NoLine, Issue(req, r), r, <<uploading, HttpErr(r)>>, NoTable)
                         ELSE IF r.body.top = "notjson"
                         THEN Return(key, NoLine, Issue(req, r), r,
                                     <<uploading,
                                       Msg("File Uploaded Successfully, use -l to list new files", 0),
                                       OtherErr>>, NoTable)
                         ELSE Return(key, NoLine, Issue(req, r), r,
                                     <<uploading,
                                       Msg("File Uploaded Successfully, use -l to list new files", 0)>>,
                                     NoTable)

\* ------------------------------------------------------------------- list
ListHeaders == <<"ID", "Name", "CID", "Group ID">>
RecordColumns == <<"id", "name", "cid", "group_id">>

\* display_pinata_files: a row per record, in the order of the array;
\* file['id'] and the like raise KeyError when a record lacks the key.
RowOf(rec) == [c \in 1..Len(RecordColumns) |-> <<RecordColumns[c], rec.n>>]
DisplayRaises(files) ==
    \/ files.kind # "array"
    \/ \E i \in 1..Len(files.items) : ~(RecordKeys \subseteq files.items[i].has)
display_pinata_files(files) ==
    [headers |-> ListHeaders,
     rows |-> [i \in 1..Len(files.items) |-> RowOf(files.items[i])]]

\* The try block of get_pinata_files after raise_for_status:
\* "table", "raw" (the Error: line) or "raised" (caught, nothing printed).
ListOutcome(body) ==
    IF body.top \in {"notjson", "null"} THEN "raised"
    ELSE IF body.top = "list" \/ body.data.kind = "missing" THEN "raw"
    ELSE IF PyIn("files", body.data) = "TypeError" THEN "raised"
    ELSE IF PyIn("files", body.data) = "False" THEN "raw"
    ELSE IF PyGetItem("files", body.data) # "value" THEN "raised"
    ELSE IF DisplayRaises(body.data.files) THEN "raised"
    ELSE "table"

ListResponses == Responses(Bodies(ListData))

\* get_pinata_files. The error dictionaries are returned to main, which
\* drops them.
ListFiles ==
    /\ pc = "list"
    /\ UNCHANGED <<fs, lastSaved>>
    /\ LET key == read_token(fs)
           req == Request("GET", FilesUrl, <<>>, <<>>, key)
       IN  IF NotApiKey(key) THEN MissingCredential(key)
           ELSE \E r \in ListResponses :
                  IF r.failed \/ raise_for_status(r.status)
                  THEN Return(key, NoLine, Issue(req, r), r, <<>>, NoTable)
                  ELSE IF ListOutcome(r.body) = "table"
                  THEN Return(key, NoLine, Issue(req, r), r, <<Msg("table", 0)>>,
                              display_pinata_files(r.body.data.files))
                  ELSE IF ListOutcome(r.body) = "raw"
                  THEN Return(key, NoLine, Issue(req, r), r, <<Msg("Error:", 0)>>, NoTable)
                  ELSE Return(key, NoLine, Issue(req, r), r, <<>>, NoTable)

\* -------------------------------------------------------------------- get
\* The rows of the detail table, in the order of the source: label and key.
DetailFields ==
    << <<"ID", "id">>, <<"Name", "name">>, <<"CID", "cid">>,
       <<"Size (bytes)", "size">>, <<"Number of Files", "number_of_files">>,
       <<"MIME Type", "mime_type">>, <<"Group ID", "group_id">>,
       <<"Created At", "created_at">> >>

NotAvailable == <<"N/A">>
ValueOf(key) == <<"value of", key>>

\* dict.get(key), the default left out: None for a missing key.
DictGetNone(d, key, default) == IF key \in d.has THEN ValueOf(key) ELSE <<"None">>

\* dict.get(key, default)
DictGet(d, key, default) == IF key \in d.has THEN ValueOf(key) ELSE default

\* "if keyvalues:" on file_data.get("keyvalues", {})
KeyvaluesTruthy(d) == "keyvalues" \in d.has /\ d.kv = "nonempty"

DetailRows(d) ==
    [i \in 1..Len(DetailFields) |->
        <<DetailFields[i][1], DictGet(d, DetailFields[i][2], NotAvailable)>>]
    \o (IF KeyvaluesTruthy(d) THEN << <<"Keyvalues", <<"str(keyvalues)">> >> >> ELSE <<>>)

EmptyDict == [kind |-> "obj", has |-> {}, kv |-> "missing", files |-> NoFiles]

\* response.json().get('data', {})
FileData(body) == IF body.data.kind = "missing" THEN EmptyDict ELSE body.data

\* .get raises AttributeError on anything that is not a mapping
GetRaises(body) == body.top # "obj" \/ FileData(body).kind # "obj"

GetResponses == Responses(Bodies(GetData))

\* get_pinata_file_details
GetFile ==
    /\ pc = "get"
    /\ UNCHANGED <<fs, lastSaved>>
    /\ LET key == read_token(fs)
           req == Request("GET", FileUrl, argv.getfile.val, <<>>, key)
       IN  IF NotApiKey(key) THEN MissingCredential(key)
           ELSE \E r \in GetResponses :
                  IF r.failed
                  THEN Return(key, NoLine, Issue(req, r), r, <<OtherErr>>, NoTable)
                  ELSE IF raise_for_status(r.status)
                  THEN Return(key, NoLine, Issue(req, r), r, <<HttpErr(r)>>, NoTable)
                  ELSE IF GetRaises(r.body)
                  THEN Return(key, NoLine, Issue(req, r), r, <<OtherErr>>, NoTable)
                  ELSE Return(key, NoLine, Issue(req, r), r, <<Msg("table", 0)>>,
                              [headers |-> <<"Field", "Value">>,
                               rows |-> DetailRows(FileData(r.body))])

\* ----------------------------------------------------------------- update
\* "file_id, new_name = data.split(',')", then ".split('=')[1]" of each:
\* ValueError unless there are exactly two parts, IndexError when a part has
\* no "=".
ParseRaises(data) ==
    LET parts == Split(data, ",")
    IN  \/ Len(parts) # 2
        \/ Len(Split(parts[1], "=")) < 2
        \/ Len(Split(parts[2], "=")) < 2
ParsedId(data) == Split(Split(data, ",")[1], "=")[2]
ParsedName(data) == Split(Split(data, ",")[2], "=")[2]

\* update_pinata_file. The spec is parsed before the token is read.
UpdateFile ==
    /\ pc = "update"
    /\ UNCHANGED <<fs, lastSaved>>
    /\ LET data == argv.updatefile.val
           key == read_token(fs)
           updated == Msg("values updated successfully, run -l to check updated values", 0)
       IN  IF ParseRaises(data) THEN Uncaught(NoKey, NoLine)
           ELSE IF NotApiKey(key) THEN MissingCredential(key)
           ELSE LET req == Request("PUT", FileUrl, ParsedId(data), ParsedName(data), key)
                IN  \E r \in Responses(PlainBodies) :
                      IF r.failed
                      THEN Return(key, NoLine, Issue(req, r), r, <<OtherErr>>, NoTable)
                      ELSE IF raise_for_status(r.status)
                      THEN Return(key, NoLine, Issue(req, r), r, <<HttpErr(r)>>, NoTable)
                      ELSE IF r.body.top = "notjson"
                      THEN Return(key, NoLine, Issue(req, r), r, <<updated, OtherErr>>, NoTable)
                      ELSE Return(key, NoLine, Issue(req, r), r, <<updated>>, NoTable)

\* ----------------------------------------------------------------- delete
confirms == {<<"y">>, <<"y", "e", "s">>}

\* A test that forgets to lower-case the answer.
IsConfirmedAsTyped(text) == text \in confirms

\* "user_confirmation.lower() in confirms"
IsConfirmed(text) == Lower(text) \in confirms

\* delete_pinata_file
DeleteFile ==
    /\ pc = "delete"
    /\ UNCHANGED <<fs, lastSaved>>
    /\ LET key == read_token(fs)
           req == Request("DELETE", FileUrl, argv.deletefile.val, <<>>, key)
       IN  IF NotApiKey(key) THEN MissingCredential(key)
           ELSE \E ln \in Inputs(ConfirmInputs) :
                  IF ln.eof THEN Uncaught(key, ln)
                  ELSE IF ln.text = <<>>
                  THEN Finish(key, ln, <<>>, NoResp,
                              <<Msg("exiting as there are no inputs, Default is NO", 0)>>,
                              NoTable, "exit", ExitFail)
                  ELSE IF ~IsConfirmed(ln.text)
                  THEN Finish(key, ln, <<>>, NoResp, <<Msg("User Confirmed NO", 0)>>,
                              NoTable, "exit", ExitFail)
                  ELSE \E r \in Responses(PlainBodies) :
                         IF r.failed
                         THEN Return(key, ln, Issue(req, r), r, <<OtherErr>>, NoTable)
                         ELSE IF raise_for_status(r.status)
                         THEN Return(key, ln, Issue(req, r), r, <<HttpErr(r)>>, NoTable)
                         ELSE IF r.status = 200
                         THEN Return(key, ln, Issue(req, r), r, <<Msg("File deleted successfully", 0)>>,
                                     NoTable)
                         ELSE IF r.body.top = "notjson"
                         THEN Return(key, ln, Issue(req, r), r, <<OtherErr>>, NoTable)
                         ELSE Return(key, ln, Issue(req, r), r, <<>>, NoTable)

\* ---------------------------------------------------------- specification
Next ==
    \/ Main
    \/ Setup
    \/ AuthTest
    \/ Upload
    \/ ListFiles
    \/ GetFile
    \/ UpdateFile
    \/ DeleteFile
    \/ ProcessExit
    \/ NewRun

Spec == Init /\ [][Next]_vars

TypeOK ==
    /\ pc \in {"off", "main", "setup", "authtest", "upload", "list", "get", "update",
               "delete", "done"}
    /\ ending \in {"running", "return", "exit", "uncaught"}
    /\ (pc = "done") <=> (ending # "running")
    /\ fs \in FsStates(Tokens)
    /\ argv \in Argvs

\* ----------------------------------------------------------------- claims
NonSetupOps == {"authtest", "upload", "list", "get", "update", "delete"}

\* The stored credential is absent: no file, a file that cannot be read, or
\* an empty file.
CredentialAbsent == ~fs.exists \/ ~fs.readable \/ fs.content = <<>>

Answered == pc = "done" /\ Len(http) >= 1 /\ ~resp.failed

Printed(text) == \E i \in 1..Len(out) : out[i].text = text

\* C1: a run of any operation other than setup with the credential absent
\* issues no HTTP request and ends with a non-zero exit status.
C1_AbsentCredentialIsFatal ==
    (op \in NonSetupOps /\ CredentialAbsent) =>
        /\ http = <<>>
        /\ pc = "done" => status # 0

\* C1 witness: list has run against an empty credential file and left with 1.
C1_Witness ==
    /\ pc = "done" /\ op = "list"
    /\ fs.exists /\ fs.readable /\ fs.content = <<>>
    /\ ending = "exit" /\ status = 1 /\ http = <<>>

\* C2: with a credential present, delete issues the DELETE request exactly
\* when the answer, lower-cased, is "y" or "yes"; after any other answer (the
\* empty one, or none at all) it issues no request and exits non-zero.
C2_DeleteOnlyWhenConfirmed ==
    (pc = "done" /\ op = "delete" /\ ~CredentialAbsent) =>
        LET yes == ~line.eof /\ Lower(line.text) \in {<<"y">>, <<"y", "e", "s">>}
        IN  /\ yes <=> (Len(http) = 1 /\ http[1].method = "DELETE"
                        /\ http[1].id = argv.deletefile.val)
            /\ ~yes => (http = <<>> /\ status # 0)

\* C2 witness: "YeS" was typed and the DELETE request went out.
C2_Witness ==
    /\ pc = "done" /\ op = "delete"
    /\ line.text = <<"Y", "e", "S">>
    /\ Len(http) = 1 /\ http[1].method = "DELETE"

\* The first flag present on the command line, whatever its value.
FirstSupplied(a) ==
    IF a.setup THEN "setup"
    ELSE IF a.authtest THEN "authtest"
    ELSE IF a.uploadfile.given THEN "upload"
    ELSE IF a.listfiles THEN "list"
    ELSE IF a.getfile.given THEN "get"
    ELSE IF a.updatefile.given THEN "update"
    ELSE IF a.deletefile.given THEN "delete"
    ELSE "none"

\* C3: the operation that runs is the first flag supplied, in the order
\* setup, authtest, upload, list, get, update, delete, and only it; with no
\* flag supplied nothing runs, a usage error is printed and the status is 1.
C3_FirstSuppliedFlagRuns ==
    (pc \notin {"off", "main"} /\ argv.extra = "none") =>
        /\ op = FirstSupplied(argv)
        /\ pc \in {"done", op}
        /\ FirstSupplied(argv) = "none" =>
              (status = 1 /\ Printed("Error: Invalid Options, Use -h for detailed Help"))

\* C4: a token that a run loads is, character for character, the token the
\* latest successful setup saved.
C4_LoadReturnsLastSaved ==
    (pc = "done" /\ lastSaved.valid /\ ~apiKey.isFalse) => apiKey.str = lastSaved.tok

\* C5: a run issues at most one HTTP request, whatever the answer, and setup
\* issues none.
C5_AtMostOneRequest ==
    /\ Len(http) <= 1
    /\ op \in {"setup", "none"} => http = <<>>

\* C5 witness: an upload met a transport failure and stopped after one
\* request.
C5_Witness ==
    /\ pc = "done" /\ op = "upload"
    /\ resp.failed /\ Len(http) = 1

\* C6: after a response with an error status (not 2xx: 4xx, 5xx) the handler
\* has printed a message describing the failure, has rendered nothing, and
\* the process ends normally.
C6_Non2xxIsReported ==
    (Answered /\ ~Is2xx(resp.status) /\ resp.status >= 400) =>
        /\ Printed("HTTP error occurred") \/ Printed("An error occurred")
        /\ table = NoTable
        /\ ending = "return"

\* The body is an object whose data is an object with a files array.
HasFilesArray(body) ==
    /\ body.top = "obj" /\ body.data.kind = "obj"
    /\ "files" \in body.data.has /\ body.data.files.kind = "array"

\* C7: list, answered 2xx with a JSON object: a data.files array goes to the
\* presenter, and for every other shape (no data, data without files, data
\* null or not a mapping) the raw response is printed as an error; the run
\* returns normally.
C7_ListShape ==
    (Answered /\ op = "list" /\ Is2xx(resp.status) /\ resp.body.top = "obj") =>
        /\ ending = "return"
        /\ IF HasFilesArray(resp.body)
           THEN ~Printed("Error:")
           ELSE Printed("Error:") /\ table = NoTable

\* C8: for the spec id=<id>,name=<name> the PUT request is the only one and
\* carries <id>, <name> and no keyvalues; a malformed spec ends in a parsing
\* fault with no request.
C8_UpdateSpec ==
    (pc = "done" /\ op = "update") =>
        LET data == argv.updatefile.val
        IN  /\ \A id \in Fields, name \in Fields :
                 data = MkSpec(id, name) =>
                    /\ Len(http) <= 1
                    /\ ~CredentialAbsent => Len(http) = 1
                    /\ \A i \in 1..Len(http) :
                          /\ http[i].method = "PUT"
                          /\ http[i].id = id
                          /\ http[i].name = name
                          /\ http[i].kv = {}
            /\ data \in MalformedSpecs => (ending = "uncaught" /\ http = <<>>)

\* The fields of the detail table, in the order claimed.
ClaimedOrder ==
    <<"id", "name", "cid", "size", "number_of_files", "mime_type", "group_id",
      "created_at">>

C10_OnlyUpdateParserUncaught ==
    (pc = "done" /\ argv.extra = "none") =>
        IF ending = "uncaught"
        THEN op = "update" /\ ParseRaises(argv.updatefile.val)
        ELSE status \in {0, 1}

====
